---- MODULE Spec2Model ----
(***************************************************************************)
(* OkanjoBroker: a supervisor that keeps a pool of cluster workers of one  *)
(* type alive (OkanjoBroker.js, held in src/unnamed/part_001).             *)
(*                                                                         *)
(* The program state is the record                                         *)
(*   [broker, worker, cluster, app]                                        *)
(* and every method of the class is a pure operator from such a record to *)
(* the record after the call, so that a handler that calls other methods  *)
(* (the exit handler calls emit and _spawnWorker, drainWorkers calls       *)
(* recycleWorkers, which calls _bounceWorker) is one composed step.        *)
(*                                                                         *)
(* The cluster module of the runtime is the environment.  What the model   *)
(* takes from it: ids are handed out 1, 2, 3, ...; worker.disconnect()     *)
(* called in the primary sets worker.exitedAfterDisconnect; each worker    *)
(* emits 'exit' once and 'disconnect' once; worker.isDead() is true from   *)
(* the 'exit' event on.  When the primary drops a worker from              *)
(* Cluster.workers differs between runtimes (at disconnect(), or at the    *)
(* later of 'disconnect' and 'exit'); cluster.eager chooses, in Init.      *)
(*                                                                         *)
(* OkanjoWorker (src/OkanjoWorker.js, the class of lines 1-90) runs in a   *)
(* worker process; proc is one such process: the listeners the class has   *)
(* subscribed, the hooks it has called in order, and how the process       *)
(* ended.  The hooks are meant to be overridden, so the subclass in use   *)
(* is an input of the construction.                                        *)
(*                                                                         *)
(* Worker ids: the code keeps worker.id + "" (a string) in _workerIds and  *)
(* compares it with the keys of Cluster.workers, which are the same        *)
(* decimal renderings; the model keeps the number on both sides.           *)
(***************************************************************************)
EXTENDS Integers, Sequences, FiniteSets, TLC

VARIABLES broker, worker, cluster, app, emitted, notified, proc

vars == <<broker, worker, cluster, app, emitted, notified, proc>>

\* ------------------------------------------------------------------ bounds

\* Ids the cluster may hand out before the model stops forking.
MaxId == 4

\* Largest options.workerCount a constructor call is given.
MaxWorkerCount == 2

\* Deadline timers of one worker that may be pending at the same time.
MaxDeadlines == 2

\* Ids handed out in the specification that follows the worker handles through
\* disconnect, timers and kill.
MaxBounceId == 2

\* Ids handed out in the specification that states fairness.
MaxLiveId == 2

\* The ids handed out where the exit of every bounced worker may still fork
\* its replacement after the ids of MaxLiveId are used up.
MaxExitId == 4

\* Ids handed out in the specification with two brokers.
MaxMultiId == 3

\* The broker types living in the process (one broker per type).
Brokers == {"web", "jobs"}

\* An option that was left out of the options object (or no options at all).
Undefined == [given |-> FALSE, value |-> 0]

Given(n) == [given |-> TRUE, value |-> n]

\* options.workerCount: omitted, or a number.
WorkerCountOptions == {Undefined} \cup {Given(n) : n \in 0..MaxWorkerCount}

\* options.recycleRate: omitted, zero, or a period in ms.
RecycleRateOptions == {Undefined, Given(0), Given(60000)}

\* What the caller passes as app: nothing, null, a plain object, an instance
\* of some other class, an OkanjoApp.
AppArgs == {"undefined", "null", "plainObject", "otherInstance", "okanjoApp"}

\* What a listener of worker_ended / worker_death does with the broker while
\* the exit handler is still running (emit calls listeners synchronously).
ListenerCalls == {"none", "resumeWorkers", "drainWorkers", "recycleWorkers"}

\* How a worker process ended: process.exit(0), a crash (non-zero code), a signal.
ExitCauses == {"exit0", "crash", "signal"}

\* How a process that was sent SIGTERM ends: its handler calls process.exit(0),
\* or the signal ends it.
KillCauses == {"exit0", "signal"}

\* ------------------------------------------------------------- state record

Cur == [broker |-> broker, worker |-> worker, cluster |-> cluster,
        app |-> app, emitted |-> emitted, notified |-> notified]

Become(s) ==
    /\ broker' = s.broker
    /\ worker' = s.worker
    /\ cluster' = s.cluster
    /\ app' = s.app
    /\ emitted' = s.emitted
    /\ notified' = s.notified
    /\ UNCHANGED proc

NoError == [about |-> "none", got |-> "none"]

NewBroker ==
    [phase |-> "new", error |-> NoError, drainOpen |-> FALSE, workerCount |-> 0,
     recycleRate |-> 0, recycleTimer |-> FALSE, workerIds |-> <<>>]


\* ---------------------------------------------------------------- helpers

\* Array.prototype.indexOf on a sequence, 0-based, -1 when absent.
IndexOf(seq, x) ==
    IF \E i \in 1..Len(seq) : seq[i] = x
    THEN (CHOOSE i \in 1..Len(seq) : seq[i] = x /\ \A j \in 1..(i-1) : seq[j] # x) - 1
    ELSE -1

\* A removal that drops the last element whatever the start.
SpliceLast(seq, start) ==
    IF Len(seq) = 0 THEN seq ELSE SubSeq(seq, 1, Len(seq) - 1)

\* Array.prototype.splice(start, 1): a negative start counts from the end.
Splice1(seq, start) ==
    LET n == Len(seq)
        at == IF start < 0 THEN (IF n + start < 0 THEN 0 ELSE n + start) ELSE start
    IN IF at >= n THEN seq
       ELSE [i \in 1..(n-1) |-> IF i <= at THEN seq[i] ELSE seq[i+1]]

Range(seq) == {seq[i] : i \in 1..Len(seq)}

Forked(s) == DOMAIN s.worker

\* Object.getPrototypeOf(app || {}).constructor.name
CtorName(a) ==
    CASE a = "okanjoApp" -> "OkanjoApp"
      [] a = "otherInstance" -> "Other"
      [] OTHER -> "Object"

\* ------------------------------------------------------------ _spawnWorker

\* Cluster.fork(env) and the push of the new id; the handlers wired on the
\* new worker are the actions Exit, Disconnect, Message, WorkerError below.
\* A fork that hands the worker the type but not the environment of the app.
SpawnWorkerNoEnv(s, b) ==
    LET id == s.cluster.nextId
        w == [type |-> b, env |-> "undefined", dead |-> FALSE,
              connected |-> TRUE, exitedAfterDisconnect |-> FALSE,
              directed |-> FALSE, deadlines |-> 0, latestPending |-> FALSE,
              hasTimer |-> FALSE, followups |-> 0, killed |-> FALSE,
              ended |-> 0, death |-> 0, inPoolAtEvent |-> FALSE, replacements |-> 0]
    IN [s EXCEPT
          !.cluster.nextId = id + 1,
          !.cluster.workers = @ \cup {id},
          !.worker = (id :> w) @@ @,
          !.broker[b].workerIds = Append(@, id)]

\* A fork whose id is recorded in the list of every broker.
SpawnWorkerShared(s, b) ==
    LET id == s.cluster.nextId
        w == [type |-> b, env |-> s.app.currentEnvironment, dead |-> FALSE,
              connected |-> TRUE, exitedAfterDisconnect |-> FALSE,
              directed |-> FALSE, deadlines |-> 0, latestPending |-> FALSE,
              hasTimer |-> FALSE, followups |-> 0, killed |-> FALSE,
              ended |-> 0, death |-> 0, inPoolAtEvent |-> FALSE, replacements |-> 0]
    IN [s EXCEPT
          !.cluster.nextId = id + 1,
          !.cluster.workers = @ \cup {id},
          !.worker = (id :> w) @@ @,
          !.broker = [o \in Brokers |->
                         [s.broker[o] EXCEPT !.workerIds = Append(@, id)]]]

\* A fork whose id is pushed onto the list twice.
SpawnWorkerPushesTwice(s, b) ==
    LET id == s.cluster.nextId
        w == [type |-> b, env |-> s.app.currentEnvironment, dead |-> FALSE,
              connected |-> TRUE, exitedAfterDisconnect |-> FALSE,
              directed |-> FALSE, deadlines |-> 0, latestPending |-> FALSE,
              hasTimer |-> FALSE, followups |-> 0, killed |-> FALSE,
              ended |-> 0, death |-> 0, inPoolAtEvent |-> FALSE, replacements |-> 0]
    IN [s EXCEPT
          !.cluster.nextId = id + 1,
          !.cluster.workers = @ \cup {id},
          !.worker = (id :> w) @@ @,
          !.broker[b].workerIds = Append(Append(@, id), id)]

SpawnWorker(s, b) ==
    LET id == s.cluster.nextId
        w == [type |-> b, env |-> s.app.currentEnvironment, dead |-> FALSE,
              connected |-> TRUE, exitedAfterDisconnect |-> FALSE,
              directed |-> FALSE, deadlines |-> 0, latestPending |-> FALSE,
              hasTimer |-> FALSE, followups |-> 0, killed |-> FALSE,
              ended |-> 0, death |-> 0, inPoolAtEvent |-> FALSE, replacements |-> 0]
    IN [s EXCEPT
          !.cluster.nextId = id + 1,
          !.cluster.workers = @ \cup {id},
          !.worker = (id :> w) @@ @,
          !.broker[b].workerIds = Append(@, id)]

\* A loop that stops one round early.
RECURSIVE SpawnTimesShort(_, _, _)
SpawnTimesShort(s, b, n) ==
    IF n <= 1 THEN s ELSE SpawnTimesShort(SpawnWorker(s, b), b, n - 1)

RECURSIVE SpawnTimes(_, _, _)
SpawnTimes(s, b, n) ==
    IF n <= 0 THEN s ELSE SpawnTimes(SpawnWorker(s, b), b, n - 1)

\* ------------------------------------------------------- constructor, _init

\* new Error(`You need to provide the current app context when making a
\* broker. Got: ${...constructor.name}`)
ContextError(a) == [about |-> "app context", got |-> CtorName(a)]

\* An _init that arms the recycle interval whatever the rate.
BrokerInitAlwaysArms(s, b) ==
    LET spawned == SpawnTimes([s EXCEPT !.broker[b].workerIds = <<>>], b,
                              s.broker[b].workerCount)
    IN [spawned EXCEPT !.broker[b].recycleTimer = TRUE]

BrokerInit(s, b) ==
    LET spawned == SpawnTimes([s EXCEPT !.broker[b].workerIds = <<>>], b,
                              s.broker[b].workerCount)
    IN [spawned EXCEPT !.broker[b].recycleTimer = (s.broker[b].recycleRate > 0)]

\* A constructor that starts the workers before it has looked at app.
ConstructorSpawnsFirst(s, b, a, wc, rr) ==
    LET started == BrokerInit(
           [s EXCEPT !.broker[b].workerCount = IF ~wc.given THEN 1 ELSE wc.value,
                     !.broker[b].recycleRate = IF ~rr.given \/ rr.value = 0 THEN 0 ELSE rr.value],
           b)
    IN IF CtorName(a) # "OkanjoApp"
       THEN [started EXCEPT !.broker[b].phase = "threw",
                            !.broker[b].error = ContextError(a)]
       ELSE [started EXCEPT !.broker[b].phase = "live"]

Constructor(s, b, a, wc, rr) ==
    IF CtorName(a) # "OkanjoApp"
    THEN [s EXCEPT !.broker[b].phase = "threw",
                   !.broker[b].error = ContextError(a)]
    ELSE BrokerInit(
           [s EXCEPT !.broker[b].phase = "live",
                     !.broker[b].drainOpen = FALSE,
                     !.broker[b].workerCount = IF ~wc.given THEN 1 ELSE wc.value,
                     !.broker[b].recycleRate = IF ~rr.given \/ rr.value = 0 THEN 0 ELSE rr.value],
           b)

\* ------------------------------------------------------------ _bounceWorker

\* The force-kill delay of _bounceWorker, in ms.
DisconnectTimeout == 2000

\* The delay of the follow-up check armed by the disconnect handler, in ms.
FollowupDelay == 1000

\* app.report(...): the sink keeps the kind of the last report.
Report(s, kind) == [s EXCEPT !.app.lastReport = kind]

\* worker.disconnect() in the primary: marks the exit as intended; a runtime
\* that drops the worker from Cluster.workers right away does so here.
WorkerDisconnectCall(s, id) ==
    [s EXCEPT !.worker[id].exitedAfterDisconnect = TRUE,
              !.cluster.workers = IF s.cluster.eager THEN @ \ {id} ELSE @]

\* A bounce that sends the directive and arms the deadline but leaves the IPC
\* channel alone.
BounceWorkerNoDisconnect(s, b, id) ==
    IF id \notin s.cluster.workers
    THEN Report(s, "bounce")
    ELSE [s EXCEPT !.worker[id].directed = TRUE,
                   !.worker[id].deadlines = @ + 1,
                   !.worker[id].latestPending = TRUE,
                   !.worker[id].hasTimer = TRUE]

\* Cluster.workers[id].id throws a TypeError when the registry has no such id.
BounceThrows(s, id) == id \notin s.cluster.workers

\* The body of the try block of _bounceWorker for an id the registry holds.
\* worker.send() on a closed channel does not throw: the failure comes back as
\* an 'error' event of the worker, which its error handler reports.
BounceSteps(s, b, id) ==
    LET sent == IF s.worker[id].connected
                THEN [s EXCEPT !.worker[id].directed = TRUE]
                ELSE Report([s EXCEPT !.worker[id].directed = TRUE], "error")
        armed == [sent EXCEPT !.worker[id].deadlines = @ + 1,
                              !.worker[id].latestPending = TRUE,
                              !.worker[id].hasTimer = TRUE]
    IN WorkerDisconnectCall(armed, id)

\* A bounce without the try/catch: the TypeError reaches the caller.
BounceWorkerNoCatch(s, b, id) ==
    IF BounceThrows(s, id)
    THEN [s EXCEPT !.broker[b].error = [about |-> "bounce", got |-> "TypeError"]]
    ELSE BounceSteps(s, b, id)

\* _bounceWorker(id)
BounceWorker(s, b, id) ==
    IF BounceThrows(s, id)
    THEN \* the catch reports it
         Report(s, "bounce")
    ELSE BounceSteps(s, b, id)

\* ----------------------------------------------------------- recycleWorkers

\* Every id of Cluster.workers, whoever forked it.
AllInRegistry(s, b) == s.cluster.workers

\* The ids of Cluster.workers this broker holds in its own list.
OwnInRegistry(s, b) ==
    {id \in s.cluster.workers : IndexOf(s.broker[b].workerIds, id) >= 0}

RECURSIVE BounceAll(_, _, _)
BounceAll(s, b, ids) ==
    IF ids = {} THEN s
    ELSE LET id == CHOOSE x \in ids : \A y \in ids : x <= y
         IN BounceAll(BounceWorker(s, b, id), b, ids \ {id})

\* A pass that goes over the registry a second time once it has finished.
RecycleWorkersAgain(s, b) ==
    LET once == BounceAll(s, b, OwnInRegistry(s, b))
    IN BounceAll(once, b, OwnInRegistry(once, b))

\* A pass that closes the gate before it bounces the pool.
RecycleWorkersClosesGate(s, b) ==
    BounceAll([s EXCEPT !.broker[b].drainOpen = TRUE], b, OwnInRegistry(s, b))

\* A pass that tops the pool up to workerCount after bouncing it.
RecycleWorkersRefills(s, b) ==
    LET bounced == BounceAll(s, b, OwnInRegistry(s, b))
    IN SpawnTimes(bounced, b,
                  bounced.broker[b].workerCount - Len(bounced.broker[b].workerIds))

\* for (id in Cluster.workers): the keys are those present when the loop starts,
\* in ascending order; a bounce removes at most its own key.
RecycleWorkers(s, b) == BounceAll(s, b, OwnInRegistry(s, b))

\* ------------------------------------------------- drainWorkers, resumeWorkers

\* A drain that bounces the pool but leaves the gate as it was.
DrainWorkersNoFlag(s, b) == RecycleWorkers(s, b)

DrainWorkers(s, b) == RecycleWorkers([s EXCEPT !.broker[b].drainOpen = TRUE], b)

\* A resume that starts one worker when the pool is short, instead of looping.
ResumeWorkersOnce(s, b) ==
    SpawnTimes([s EXCEPT !.broker[b].drainOpen = FALSE], b,
               IF Len(s.broker[b].workerIds) < s.broker[b].workerCount THEN 1 ELSE 0)

\* A resume that forks one worker at every call, full pool or not.
ResumeWorkersAlwaysForks(s, b) ==
    SpawnTimes([s EXCEPT !.broker[b].drainOpen = FALSE], b, 1)

ResumeWorkers(s, b) ==
    SpawnTimes([s EXCEPT !.broker[b].drainOpen = FALSE], b,
               s.broker[b].workerCount - Len(s.broker[b].workerIds))

\* ------------------------------------------------------ the worker's handlers

\* What a listener of the lifecycle event does before emit returns.
Listener(s, b, call) ==
    CASE call = "resumeWorkers" -> ResumeWorkers(s, b)
      [] call = "drainWorkers" -> DrainWorkers(s, b)
      [] call = "recycleWorkers" -> RecycleWorkers(s, b)
      [] OTHER -> s

\* this.emit('worker_ended' | 'worker_death', {id, code, signal, worker})
EmitLifecycle(s, b, id, event, cause, call) ==
    Listener([s EXCEPT !.worker[id].ended = IF event = "worker_ended" THEN @ + 1 ELSE @,
                       !.worker[id].death = IF event = "worker_death" THEN @ + 1 ELSE @,
                       !.emitted = [event |-> event, id |-> id, cause |-> cause],
                       !.worker[id].inPoolAtEvent = (id \in Range(s.broker[b].workerIds))],
             b, call)

\* The replacement spawned by the exit handler of worker id.
Replace(s, b, id) ==
    [SpawnWorker(s, b) EXCEPT !.worker[id].replacements = @ + 1]

\* An exit handler that tells a crash from an intended exit but forgets to
\* look at the drain gate and the shutdown flag.
ExitHandlerUngated(s, id, cause, call) ==
    LET b == s.worker[id].type
        gone == [s EXCEPT
                   !.worker[id].dead = TRUE,
                   !.cluster.workers = IF s.worker[id].connected THEN @ ELSE @ \ {id},
                   !.broker[b].workerIds = Splice1(@, IndexOf(@, id))]
    IN IF s.worker[id].exitedAfterDisconnect = TRUE
       THEN Replace(EmitLifecycle(gone, b, id, "worker_ended", cause, call), b, id)
       ELSE Replace(EmitLifecycle(Report(gone, "death"), b, id,
                                  "worker_death", cause, call), b, id)

\* An exit handler that reports every exit outside drain and shutdown as
\* intended.
ExitHandlerNoDeath(s, id, cause, call) ==
    LET b == s.worker[id].type
        gone == [s EXCEPT
                   !.worker[id].dead = TRUE,
                   !.cluster.workers = IF s.worker[id].connected THEN @ ELSE @ \ {id},
                   !.broker[b].workerIds = Splice1(@, IndexOf(@, id))]
    IN IF ~s.app.gracefulShutdown /\ ~s.broker[b].drainOpen
       THEN Replace(EmitLifecycle(gone, b, id, "worker_ended", cause, call), b, id)
       ELSE EmitLifecycle(gone, b, id, "worker_ended", cause, call)

\* An exit handler that leaves the id of the worker in the list of the broker.
ExitHandlerKeepsId(s, id, cause, call) ==
    LET b == s.worker[id].type
        gone == [s EXCEPT
                   !.worker[id].dead = TRUE,
                   !.cluster.workers = IF s.worker[id].connected THEN @ ELSE @ \ {id}]
    IN IF ~s.app.gracefulShutdown /\ ~s.broker[b].drainOpen
       THEN IF s.worker[id].exitedAfterDisconnect = TRUE
            THEN Replace(EmitLifecycle(gone, b, id, "worker_ended", cause, call), b, id)
            ELSE Replace(EmitLifecycle(Report(gone, "death"), b, id,
                                       "worker_death", cause, call), b, id)
       ELSE EmitLifecycle(gone, b, id, "worker_ended", cause, call)

\* An exit handler that emits worker_death without telling the app.
ExitHandlerNoReport(s, id, cause, call) ==
    LET b == s.worker[id].type
        gone == [s EXCEPT
                   !.worker[id].dead = TRUE,
                   !.cluster.workers = IF s.worker[id].connected THEN @ ELSE @ \ {id},
                   !.broker[b].workerIds = Splice1(@, IndexOf(@, id))]
    IN IF ~s.app.gracefulShutdown /\ ~s.broker[b].drainOpen
       THEN IF s.worker[id].exitedAfterDisconnect = TRUE
            THEN Replace(EmitLifecycle(gone, b, id, "worker_ended", cause, call), b, id)
            ELSE Replace(EmitLifecycle(gone, b, id, "worker_death", cause, call), b, id)
       ELSE EmitLifecycle(gone, b, id, "worker_ended", cause, call)

\* An exit handler that forks the replacement first and emits the lifecycle
\* event afterwards.
ExitHandlerSpawnsFirst(s, id, cause, call) ==
    LET b == s.worker[id].type
        gone == [s EXCEPT
                   !.worker[id].dead = TRUE,
                   !.cluster.workers = IF s.worker[id].connected THEN @ ELSE @ \ {id},
                   !.broker[b].workerIds = Splice1(@, IndexOf(@, id))]
    IN IF ~s.app.gracefulShutdown /\ ~s.broker[b].drainOpen
       THEN IF s.worker[id].exitedAfterDisconnect = TRUE
            THEN EmitLifecycle(Replace(gone, b, id), b, id, "worker_ended", cause, call)
            ELSE EmitLifecycle(Replace(Report(gone, "death"), b, id), b, id,
                               "worker_death", cause, call)
       ELSE EmitLifecycle(gone, b, id, "worker_ended", cause, call)

\* An exit handler that emits worker_ended after worker_death for a crash.
ExitHandlerEmitsBoth(s, id, cause, call) ==
    LET b == s.worker[id].type
        gone == [s EXCEPT
                   !.worker[id].dead = TRUE,
                   !.cluster.workers = IF s.worker[id].connected THEN @ ELSE @ \ {id},
                   !.broker[b].workerIds = Splice1(@, IndexOf(@, id))]
    IN IF ~s.app.gracefulShutdown /\ ~s.broker[b].drainOpen
       THEN IF s.worker[id].exitedAfterDisconnect = TRUE
            THEN Replace(EmitLifecycle(gone, b, id, "worker_ended", cause, call), b, id)
            ELSE Replace(EmitLifecycle(
                            EmitLifecycle(Report(gone, "death"), b, id,
                                          "worker_death", cause, call),
                            b, id, "worker_ended", cause, "none"), b, id)
       ELSE EmitLifecycle(gone, b, id, "worker_ended", cause, call)

\* worker.on('exit', (code, signal) => ...) of a worker forked by broker b.
ExitHandler(s, id, cause, call) ==
    LET b == s.worker[id].type
        gone == [s EXCEPT
                   !.worker[id].dead = TRUE,
                   !.cluster.workers = IF s.worker[id].connected THEN @ ELSE @ \ {id},
                   !.broker[b].workerIds = Splice1(@, IndexOf(@, id))]
    IN IF ~s.app.gracefulShutdown /\ ~s.broker[b].drainOpen
       THEN IF s.worker[id].exitedAfterDisconnect = TRUE
            THEN Replace(EmitLifecycle(gone, b, id, "worker_ended", cause, call), b, id)
            ELSE Replace(EmitLifecycle(Report(gone, "death"), b, id,
                                       "worker_death", cause, call), b, id)
       ELSE EmitLifecycle(gone, b, id, "worker_ended", cause, call)

\* The exit handler of a worker when the gate is open and Cluster.fork throws
\* in _spawnWorker: the id is gone and the event emitted, nothing is forked,
\* and no handler stands between the throw and the event loop, so the error
\* leaves the callback uncaught and reaches no report.
ExitHandlerForkThrows(s, id, cause, call) ==
    LET b == s.worker[id].type
        gone == [s EXCEPT
                   !.worker[id].dead = TRUE,
                   !.cluster.workers = IF s.worker[id].connected THEN @ ELSE @ \ {id},
                   !.broker[b].workerIds = Splice1(@, IndexOf(@, id))]
        told == IF s.worker[id].exitedAfterDisconnect = TRUE
                THEN EmitLifecycle(gone, b, id, "worker_ended", cause, call)
                ELSE EmitLifecycle(Report(gone, "death"), b, id,
                                   "worker_death", cause, call)
    IN [told EXCEPT !.broker[b].error = [about |-> "fork", got |-> "Error"]]

\* A disconnect handler that leaves the deadline timer armed.
DisconnectHandlerKeepsTimer(s, id) ==
    [s EXCEPT !.worker[id].connected = FALSE,
              !.cluster.workers = IF s.worker[id].dead THEN @ \ {id} ELSE @,
              !.worker[id].followups = @ + 1]

\* A disconnect handler that kills the worker at once instead of arming the
\* follow-up check.
DisconnectHandlerKills(s, id) ==
    [s EXCEPT !.worker[id].connected = FALSE,
              !.cluster.workers = IF s.worker[id].dead THEN @ \ {id} ELSE @,
              !.worker[id].killed = TRUE]

\* worker.on('disconnect', () => ...)
DisconnectHandler(s, id) ==
    LET off == [s EXCEPT
                  !.worker[id].connected = FALSE,
                  !.cluster.workers = IF s.worker[id].dead THEN @ \ {id} ELSE @]
        cleared == IF s.worker[id].hasTimer /\ s.worker[id].latestPending
                   THEN [off EXCEPT !.worker[id].deadlines = @ - 1,
                                    !.worker[id].latestPending = FALSE]
                   ELSE off
    IN [cleared EXCEPT !.worker[id].followups = @ + 1]

\* A deadline callback that lets the worker be.
DeadlineExpiredIdle(s, id) ==
    LET older == s.worker[id].deadlines - (IF s.worker[id].latestPending THEN 1 ELSE 0)
    IN [s EXCEPT !.worker[id].deadlines = @ - 1,
                 !.worker[id].latestPending = IF older > 0 THEN @ ELSE FALSE]

\* The callback of the timer armed in _bounceWorker: worker.kill().
DeadlineExpired(s, id) ==
    LET older == s.worker[id].deadlines - (IF s.worker[id].latestPending THEN 1 ELSE 0)
    IN [s EXCEPT !.worker[id].deadlines = @ - 1,
                 !.worker[id].latestPending = IF older > 0 THEN @ ELSE FALSE,
                 !.worker[id].killed = @ \/ ~s.worker[id].dead]

\* A follow-up check that lets the worker be.
FollowupExpiredIdle(s, id) ==
    [s EXCEPT !.worker[id].followups = @ - 1]

\* The callback of the timer armed in the disconnect handler.
FollowupExpired(s, id) ==
    [s EXCEPT !.worker[id].followups = @ - 1,
              !.worker[id].killed = @ \/ ~s.worker[id].dead]

\* The payloads a worker sends: a string, a number, null, and objects with
\* type "ops", with another type, with no type field.
Payloads ==
    {[kind |-> k, type |-> "undefined"] : k \in {"string", "number", "null"}}
        \cup {[kind |-> "object", type |-> ty] : ty \in {"ops", "other", "undefined"}}

\* typeof msg
TypeOf(msg) == IF msg.kind = "null" THEN "object" ELSE msg.kind

\* msg.type: reading a property of null throws a TypeError.
ReadTypeThrows(msg) == msg.kind = "null"

Notify(s, id, msg, event) ==
    [s EXCEPT !.notified = [msg |-> msg, from |-> id, threw |-> FALSE,
                            out |-> <<[event |-> event, msg |-> msg, worker |-> id]>>]]

\* A message handler that forwards every payload as an ops report.
MessageHandlerAllOps(s, id, msg) == Notify(s, id, msg, "worker_ops")

\* worker.on('message', (msg) => ...)
MessageHandler(s, id, msg) ==
    IF TypeOf(msg) = "object"
    THEN IF ReadTypeThrows(msg)
         THEN [s EXCEPT !.notified = [msg |-> msg, from |-> id, threw |-> TRUE,
                                      out |-> <<>>]]
         ELSE IF msg.type = "ops"
              THEN Notify(s, id, msg, "worker_ops")
              ELSE Notify(s, id, msg, "worker_message")
    ELSE Notify(s, id, msg, "worker_message")

\* An error handler that takes the worker for dead and runs the exit path.
ErrorHandlerRespawns(s, id) == ExitHandler(Report(s, "error"), id, "crash", "none")

\* worker.on('error', (err) => ...)
ErrorHandler(s, id) == Report(s, "error")

\* --------------------------------------------------------------- OkanjoWorker

\* Hook calls recorded per worker process before the model stops delivering.
MaxTrace == 5

\* prepareForShutdown as the subclass has it: the base class's; the override
\* of the README (clean up, then this.shutdown()); an override that starts an
\* asynchronous clean-up whose completion calls this.shutdown().
PrepareHooks == {"default", "override", "deferred"}

\* shutdown as the subclass has it: the base class's, or an override that
\* returns without ending the process.
ShutdownHooks == {"default", "override"}

\* What the parent sends over the IPC channel: the directive of _bounceWorker,
\* other strings, an object, null.
ParentPayloads == {"suicide", "shutdown", "hey code coverage!", "object", "null"}

Signals == {"SIGINT", "SIGTERM"}

\* A process forked by the cluster before its script has made the worker.
NewProcess ==
    [phase |-> "started", skipInit |-> FALSE,
     prepare |-> "default", shutdown |-> "default",
     onMessage |-> 0, onSignal |-> [sig \in Signals |-> 0],
     inits |-> 0, pending |-> 0, calls |-> <<>>, arg |-> "none",
     last |-> "none", exit |-> "none"]

Called(p, hook) == [p EXCEPT !.calls = Append(@, hook)]

\* init(): the hook itself does nothing.
InitHook(p) == [Called(p, "init") EXCEPT !.inits = @ + 1]

\* _bindProcessSignals(): process.on('SIGINT', ...), process.on('SIGTERM', ...)
BindProcessSignals(p) ==
    [p EXCEPT !.onSignal = [sig \in Signals |-> @[sig] + 1]]

\* An unbind that removes the SIGINT handler and forgets the SIGTERM one.
UnbindSigintOnly(p) ==
    [Called(p, "unbindProcessSignals") EXCEPT
        !.onSignal["SIGINT"] = IF @ > 0 THEN @ - 1 ELSE 0]

\* unbindProcessSignals(): process.removeListener drops the handler when it is
\* subscribed and does nothing when it is not.
UnbindProcessSignals(p) ==
    [Called(p, "unbindProcessSignals") EXCEPT
        !.onSignal = [sig \in Signals |-> IF @[sig] > 0 THEN @[sig] - 1 ELSE 0]]

\* A shutdown that returns without ending the process.
ShutdownStaysAlive(p) == Called(p, "shutdown")

\* shutdown(): process.exit(0), unless overridden.
Shutdown(p) ==
    IF p.shutdown = "default"
    THEN [Called(p, "shutdown") EXCEPT !.phase = "exited", !.exit = "status0"]
    ELSE Called(p, "shutdown")

\* A prepareForShutdown that calls shutdown() with the signal handlers still
\* subscribed.
PrepareKeepsHandlers(p, arg) ==
    LET entered == [Called(p, "prepareForShutdown") EXCEPT !.arg = arg]
    IN CASE p.prepare = "default" -> Shutdown(entered)
         [] p.prepare = "override" -> Shutdown(entered)
         [] OTHER -> [entered EXCEPT !.pending = @ + 1]

\* prepareForShutdown(arg): unbindProcessSignals() then shutdown(), unless
\* overridden; the base class does not look at its argument.
PrepareForShutdown(p, arg) ==
    LET entered == [Called(p, "prepareForShutdown") EXCEPT !.arg = arg]
    IN CASE p.prepare = "default" -> Shutdown(UnbindProcessSignals(entered))
         [] p.prepare = "override" -> Shutdown(entered)
         [] OTHER -> [entered EXCEPT !.pending = @ + 1]

\* The options argument of the constructor: left out, an empty object, or an
\* object whose skipInit is false, 0, true or 1.
WorkerOptions == {"undefined", "empty", "skipFalse", "skipZero", "skipTrue", "skipOne"}

\* options = options || {}; options.skipInit as a condition
SkipInit(options) == options \in {"skipTrue", "skipOne"}

\* A constructor that calls init() whatever the options.
WorkerConstructorAlwaysInits(p, options, prepare, shutdown) ==
    LET made == [p EXCEPT !.phase = "running", !.skipInit = SkipInit(options),
                          !.prepare = prepare, !.shutdown = shutdown]
        listening == [InitHook(made) EXCEPT !.onMessage = @ + 1]
    IN BindProcessSignals(listening)

\* new OkanjoWorker(app, options) by a subclass with the given hooks
WorkerConstructor(p, options, prepare, shutdown) ==
    LET made == [p EXCEPT !.phase = "running", !.skipInit = SkipInit(options),
                          !.prepare = prepare, !.shutdown = shutdown]
        inited == IF ~SkipInit(options) THEN InitHook(made) ELSE made
        listening == [inited EXCEPT !.onMessage = @ + 1]
    IN BindProcessSignals(listening)

\* The payload _bounceWorker sends to a worker: worker.send('suicide').
Directive == "suicide"

\* A listener that takes every message of the parent for the directive.
OnAnyParentMessage(p, msg) == PrepareForShutdown(p, "undefined")

\* process.on('message', async (message) => ...)
OnParentMessage(p, msg) ==
    IF msg = "suicide" THEN PrepareForShutdown(p, "undefined") ELSE p

\* Signal handlers that go straight to shutdown().
OnSignalDirect(p, sig) == Shutdown(p)

\* The handlers of _bindProcessSignals.
OnSignal(p, sig) == PrepareForShutdown(p, "false")

\* A signal with no handler subscribed ends the process.
SignalDefault(p, sig) == [p EXCEPT !.phase = "exited", !.exit = sig]

\* ------------------------------------------------------------------ actions

NoEvent == [event |-> "none", id |-> 0, cause |-> "none"]

NoMessage == [msg |-> [kind |-> "none", type |-> "undefined"], from |-> 0,
              threw |-> FALSE, out |-> <<>>]

Init ==
    /\ broker = [b \in Brokers |-> NewBroker]
    /\ worker = <<>>
    /\ cluster \in {[nextId |-> 1, workers |-> {}, eager |-> e] : e \in BOOLEAN}
    /\ app = [gracefulShutdown |-> FALSE, currentEnvironment |-> "default",
              lastReport |-> "none"]
    /\ emitted = NoEvent
    /\ notified = NoMessage
    /\ proc = NewProcess

\* The bounds of a specification: ids handed out, timers pending per worker.
Fits(s, maxId) ==
    /\ s.cluster.nextId <= maxId + 1
    /\ \A id \in DOMAIN s.worker : s.worker[id].deadlines <= MaxDeadlines

Live(b) == broker[b].phase = "live"

\* new OkanjoBroker(app, type, options), for the types in B and the recycle
\* rates in rates
Construct(B, rates, maxId) ==
    \E b \in B, a \in AppArgs, wc \in WorkerCountOptions, rr \in rates :
        /\ broker[b].phase = "new"
        /\ LET r == Constructor(Cur, b, a, wc, rr)
           IN Fits(r, maxId) /\ Become(r)

Recycle(maxId) ==
    \E b \in Brokers :
        /\ Live(b)
        /\ LET r == RecycleWorkers(Cur, b)
           IN Fits(r, maxId) /\ Become(r)

\* A tick of the interval armed by _init.
RecycleTick(maxId) ==
    \E b \in Brokers :
        /\ Live(b)
        /\ broker[b].recycleTimer
        /\ LET r == RecycleWorkers(Cur, b)
           IN Fits(r, maxId) /\ Become(r)

Drain(maxId) ==
    \E b \in Brokers :
        /\ Live(b)
        /\ LET r == DrainWorkers(Cur, b)
           IN Fits(r, maxId) /\ Become(r)

Resume(maxId) ==
    \E b \in Brokers :
        /\ Live(b)
        /\ LET r == ResumeWorkers(Cur, b)
           IN Fits(r, maxId) /\ Become(r)

\* broker._bounceWorker(id) called with any id, whether or not the registry
\* or the broker knows it.
Bounce(maxId) ==
    \E b \in Brokers, id \in 1..(maxId + 1) :
        /\ Live(b)
        /\ LET r == BounceWorker(Cur, b, id)
           IN Fits(r, maxId) /\ Become(r)

\* A worker process ends and its 'exit' event is delivered.
ExitOf(id, maxId, causes, calls) ==
    \E cause \in causes, call \in calls :
        /\ ~worker[id].dead
        /\ LET r == ExitHandler(Cur, id, cause, call)
           IN Fits(r, maxId) /\ Become(r)

Exit(maxId, causes, calls) ==
    \E id \in DOMAIN worker : ExitOf(id, maxId, causes, calls)

\* The exit of a worker the broker has sent the kill signal to.
KilledExit(maxId) ==
    \E id \in DOMAIN worker : worker[id].killed /\ ExitOf(id, maxId, KillCauses, {"none"})

\* The IPC channel of a worker closes and its 'disconnect' event is delivered.
Disconnect ==
    \E id \in DOMAIN worker :
        /\ worker[id].connected
        /\ Become(DisconnectHandler(Cur, id))

DeadlineTimer ==
    \E id \in DOMAIN worker :
        /\ worker[id].deadlines > 0
        /\ Become(DeadlineExpired(Cur, id))

FollowupTimer ==
    \E id \in DOMAIN worker :
        /\ worker[id].followups > 0
        /\ Become(FollowupExpired(Cur, id))

\* A payload sent by a worker arrives over its IPC channel.
Message ==
    \E id \in DOMAIN worker, msg \in Payloads :
        /\ ~worker[id].dead
        /\ worker[id].connected
        /\ Become(MessageHandler(Cur, id, msg))

WorkerError ==
    \E id \in DOMAIN worker :
        /\ ~worker[id].dead
        /\ Become(ErrorHandler(Cur, id))

\* A worker exits while the gate is open and the fork of its replacement
\* throws.
ExitForkFails ==
    \E id \in DOMAIN worker, cause \in ExitCauses :
        /\ ~worker[id].dead
        /\ ~app.gracefulShutdown
        /\ ~broker[worker[id].type].drainOpen
        /\ Become(ExitHandlerForkThrows(Cur, id, cause, "none"))

\* The application starts its graceful shutdown (OkanjoApp sets the flag).
AppShutdown ==
    /\ ~app.gracefulShutdown
    /\ app' = [app EXCEPT !.gracefulShutdown = TRUE]
    /\ UNCHANGED <<broker, worker, cluster, emitted, notified, proc>>

\* ---------------------------------------------------- worker process actions

Broker == <<broker, worker, cluster, app, emitted, notified>>

Running == proc.phase = "running"

Traceable(p) == Len(p.calls) <= MaxTrace

\* The script of the worker process constructs its worker.
WorkerConstruct ==
    \E options \in WorkerOptions, prepare \in PrepareHooks, shutdown \in ShutdownHooks :
        /\ proc.phase = "started"
        /\ proc' = WorkerConstructor(proc, options, prepare, shutdown)
        /\ UNCHANGED Broker

\* The script calls worker.init() itself, as it must after skipInit.
WorkerInit ==
    /\ Running
    /\ proc.skipInit
    /\ Traceable(InitHook(proc))
    /\ proc' = InitHook(proc)
    /\ UNCHANGED Broker

\* A message of the parent arrives; with no listener it is dropped.
ParentMessage ==
    \E msg \in ParentPayloads :
        /\ proc.phase # "exited"
        /\ LET got == [proc EXCEPT !.last = msg]
               p == IF proc.onMessage > 0 THEN OnParentMessage(got, msg) ELSE got
           IN Traceable(p) /\ proc' = p
        /\ UNCHANGED Broker

\* SIGINT or SIGTERM is delivered to the process.
Signal ==
    \E sig \in Signals :
        /\ proc.phase # "exited"
        /\ LET got == [proc EXCEPT !.last = sig]
               p == IF proc.onSignal[sig] > 0
                    THEN OnSignal(got, sig)
                    ELSE SignalDefault(got, sig)
           IN Traceable(p) /\ proc' = p
        /\ UNCHANGED Broker

\* The script calls worker.unbindProcessSignals().
WorkerUnbind ==
    /\ Running
    /\ Traceable(UnbindProcessSignals(proc))
    /\ proc' = UnbindProcessSignals(proc)
    /\ UNCHANGED Broker

\* The clean-up started by an overriding prepareForShutdown completes and
\* calls this.shutdown().
CleanupDone ==
    /\ Running
    /\ proc.pending > 0
    /\ LET p == Shutdown([proc EXCEPT !.pending = @ - 1])
       IN Traceable(p) /\ proc' = p
    /\ UNCHANGED Broker

\* ----------------------------------------------------------- specifications

\* The pool: construction, the public operations, worker exits.  None of these
\* reads what the handle actions below write (the timers, connected, killed).
PoolNext(B, maxId, calls) ==
    \/ Construct(B, RecycleRateOptions, maxId)
    \/ Recycle(maxId)
    \/ RecycleTick(maxId)
    \/ Drain(maxId)
    \/ Resume(maxId)
    \/ Exit(maxId, ExitCauses, calls)
    \/ AppShutdown

\* The worker handle: disconnect and the two timers.
HandleNext ==
    \/ Disconnect
    \/ DeadlineTimer
    \/ FollowupTimer

\* One broker and its pool.
Next == PoolNext({"web"}, MaxId, ListenerCalls)

Spec == Init /\ [][Next]_vars

\* One broker, its pool and the handles of its workers.
BounceNext == PoolNext({"web"}, MaxBounceId, ListenerCalls) \/ HandleNext

SpecBounce == Init /\ [][BounceNext]_vars

\* One broker without a recycle interval, its pool and the handles, with
\* listeners that leave the broker alone; timers fire, and a process that was
\* sent the kill signal ends.
LiveNext ==
    \/ Construct({"web"}, {Undefined, Given(0)}, MaxLiveId)
    \/ Recycle(MaxLiveId)
    \/ Drain(MaxLiveId)
    \/ Resume(MaxLiveId)
    \/ Exit(MaxLiveId, KillCauses, {"none"})
    \/ AppShutdown
    \/ HandleNext

SpecLive ==
    /\ Init /\ [][LiveNext]_vars
    /\ WF_vars(DeadlineTimer)
    /\ WF_vars(FollowupTimer)
    /\ WF_vars(KilledExit(MaxLiveId))

\* The exit of a worker that was bounced: by itself (FALSE in kills) or after
\* the broker sent it the kill signal (TRUE in kills).
BouncedExit(maxId, kills) ==
    \E id \in DOMAIN worker :
        /\ worker[id].directed
        /\ worker[id].killed \in kills
        /\ ExitOf(id, maxId, KillCauses, {"none"})

\* One broker whose application recycles and drains it, and the handles of
\* its workers, where the exit of a bounced worker is never held back; timers
\* fire, and a bounced process that was sent the kill signal ends.
ConvergeNext ==
    \/ Construct({"web"}, {Undefined}, MaxLiveId)
    \/ Recycle(MaxLiveId)
    \/ Drain(MaxLiveId)
    \/ Exit(MaxLiveId, KillCauses, {"none"})
    \/ BouncedExit(MaxExitId, BOOLEAN)
    \/ HandleNext

SpecConverge ==
    /\ Init /\ [][ConvergeNext]_vars
    /\ WF_vars(DeadlineTimer)
    /\ WF_vars(FollowupTimer)
    /\ WF_vars(BouncedExit(MaxExitId, {TRUE}))

\* One broker whose _bounceWorker is also called directly, the exits and the
\* disconnects of its workers.
CallNext ==
    \/ Construct({"web"}, {Undefined}, MaxBounceId)
    \/ Bounce(MaxBounceId)
    \/ Recycle(MaxBounceId)
    \/ Exit(MaxBounceId, ExitCauses, {"none"})
    \/ Disconnect

SpecCalls == Init /\ [][CallNext]_vars

\* One broker whose application only ever drains it: whatever else bounces a
\* worker is the broker's own interval.
TickNext ==
    \/ Construct({"web"}, RecycleRateOptions, MaxBounceId)
    \/ RecycleTick(MaxBounceId)
    \/ Drain(MaxBounceId)
    \/ Exit(MaxBounceId, ExitCauses, {"none"})

SpecTick == Init /\ [][TickNext]_vars

\* One worker process running a subclass of OkanjoWorker.
WorkerNext ==
    \/ WorkerConstruct
    \/ WorkerInit
    \/ ParentMessage
    \/ Signal
    \/ WorkerUnbind
    \/ CleanupDone

SpecWorker == Init /\ [][WorkerNext]_vars

\* Two brokers of different types sharing the cluster registry.
MultiNext ==
    \/ Construct(Brokers, RecycleRateOptions, MaxMultiId)
    \/ Recycle(MaxMultiId)
    \/ Drain(MaxMultiId)
    \/ Resume(MaxMultiId)
    \/ Exit(MaxMultiId, ExitCauses, {"none"})

SpecMulti == Init /\ [][MultiNext]_vars

\* One broker, its pool, and what its workers send and raise.
IoNext ==
    \/ PoolNext({"web"}, MaxBounceId, {"none"})
    \/ Message
    \/ WorkerError

SpecIO == Init /\ [][IoNext]_vars

\* One broker, its pool, what its workers send and raise, and a clustering
\* facility whose fork may throw when a replacement is due.
FaultNext ==
    \/ IoNext
    \/ ExitForkFails

SpecFault == Init /\ [][FaultNext]_vars

\* ------------------------------------------------------------------ claims

Pool(b) == broker[b].workerIds

PoolSet(b) == Range(broker[b].workerIds)

\* The broker whose closure handles the events of worker id.
BrokerOf(id) == worker[id].type

\* The workers whose exit is handled in the step.
Exiting == {id \in DOMAIN worker : ~worker[id].dead /\ worker'[id].dead}

\* The gate of the exit handler as the step finds it.
GateOpen(b) == ~app.gracefulShutdown /\ ~broker[b].drainOpen

\* C1: for every workerCount N >= 0 (1 when the option is omitted), a
\* constructor call with a valid app returns a broker whose workerIds holds
\* exactly N distinct ids, none of them handed out before, with drainOpen false.
\* Stated of a call made in any reachable state, for every broker type not
\* constructed yet.
C1_ConstructorFillsPool ==
    \A b \in Brokers, wc \in WorkerCountOptions, rr \in RecycleRateOptions :
        broker[b].phase = "new" =>
            LET r == Constructor(Cur, b, "okanjoApp", wc, rr)
                N == IF wc.given THEN wc.value ELSE 1
                ids == r.broker[b].workerIds
            IN /\ r.broker[b].phase = "live"
               /\ r.broker[b].workerCount = N
               /\ Len(ids) = N
               /\ Cardinality(Range(ids)) = N
               /\ Range(ids) \cap DOMAIN worker = {}
               /\ Range(ids) \subseteq r.cluster.workers
               /\ r.broker[b].drainOpen = FALSE

\* A broker constructed with workerCount 2 right after its constructor returned.
C1_Witness ==
    /\ broker["web"].phase = "live"
    /\ broker["web"].workerCount = 2
    /\ broker["web"].workerIds = <<1, 2>>
    /\ ~broker["web"].drainOpen
    /\ cluster.nextId = 3

\* C2 as stated: every worker that exited without having been sent the
\* directive got exactly one worker_death, no worker_ended and exactly one
\* replacement.
C2_Original ==
    \A id \in DOMAIN worker :
        (worker[id].dead /\ ~worker[id].directed) =>
            /\ worker[id].death = 1
            /\ worker[id].ended = 0
            /\ worker[id].replacements = 1

\* C2 amended: a worker that exits while drainOpen is false and the app is not
\* shutting down, without the broker having sent it the directive, gets exactly
\* one worker_death carrying its id, no worker_ended, and the exit handler forks
\* exactly one replacement and records it in the pool; no later step changes
\* these counts.
C2_CrashReplaced ==
    [][\A id \in DOMAIN worker :
         /\ (id \in Exiting /\ ~worker[id].directed /\ GateOpen(BrokerOf(id))) =>
               /\ worker'[id].death = 1
               /\ worker'[id].ended = 0
               /\ worker'[id].replacements = 1
               /\ emitted' = [event |-> "worker_death", id |-> id, cause |-> emitted'.cause]
               /\ cluster'.nextId > cluster.nextId
               /\ \E n \in PoolSet(BrokerOf(id))' : n \notin DOMAIN worker
         /\ worker[id].dead =>
               /\ worker'[id].death = worker[id].death
               /\ worker'[id].ended = worker[id].ended
               /\ worker'[id].replacements = worker[id].replacements]_vars

\* A worker that crashed with the gate open: reported dead, replaced by a
\* pool member forked after it.
C2_Witness ==
    \E id \in DOMAIN worker :
        /\ worker[id].dead /\ ~worker[id].directed
        /\ worker[id].death = 1 /\ worker[id].replacements = 1
        /\ emitted.event = "worker_death" /\ emitted.id = id /\ emitted.cause = "crash"
        /\ \E n \in PoolSet(BrokerOf(id)) : n > id

\* C7: recycleWorkers() and drainWorkers() of one broker change (directive,
\* deadline, disconnect) only workers whose id is in that broker's own
\* workerIds, bounce every such worker still in the registry, fork nothing and
\* leave the other brokers and the last emitted event alone; the exit handler
\* of a worker changes only the broker that forked it, emits about that worker
\* and forks the replacement with that broker's type.
C7_OwnWorkersOnly ==
    /\ \A b \in Brokers, op \in {"recycle", "drain"} :
         broker[b].phase = "live" =>
           LET r == IF op = "recycle" THEN RecycleWorkers(Cur, b) ELSE DrainWorkers(Cur, b)
           IN /\ \A id \in DOMAIN worker :
                    IF id \in PoolSet(b) /\ id \in cluster.workers
                    THEN /\ r.worker[id].directed
                         /\ r.worker[id].exitedAfterDisconnect
                         /\ r.worker[id].deadlines = worker[id].deadlines + 1
                    ELSE r.worker[id] = worker[id]
              /\ DOMAIN r.worker = DOMAIN worker
              /\ \A o \in Brokers \ {b} : r.broker[o] = broker[o]
              /\ r.broker[b].workerIds = broker[b].workerIds
              /\ r.emitted = emitted
    /\ \A id \in DOMAIN worker, cause \in ExitCauses :
         ~worker[id].dead =>
           LET r == ExitHandler(Cur, id, cause, "none")
           IN /\ \A o \in Brokers \ {BrokerOf(id)} : r.broker[o] = broker[o]
              /\ r.emitted.id = id
              /\ \A n \in DOMAIN r.worker \ DOMAIN worker :
                    /\ r.worker[n].type = BrokerOf(id)
                    /\ n \in Range(r.broker[BrokerOf(id)].workerIds)
              /\ \A o \in DOMAIN worker \ {id} : r.worker[o] = worker[o]

\* Two live brokers with a worker each in the registry: the one of "web" was
\* bounced, the one of "jobs" was not touched.
C7_Witness ==
    \E i \in PoolSet("web"), j \in PoolSet("jobs") :
        /\ {i, j} \subseteq DOMAIN worker
        /\ worker[i].directed /\ worker[i].deadlines = 1
        /\ ~worker[j].directed /\ worker[j].deadlines = 0
        /\ j \in cluster.workers
        /\ worker[i].type = "web" /\ worker[j].type = "jobs"

C9_Original ==
    notified.from # 0 =>
        /\ ~notified.threw
        /\ Len(notified.out) = 1
        /\ notified.out[1].msg = notified.msg
        /\ notified.out[1].worker = notified.from
        /\ notified.out[1].event =
              IF notified.msg.kind = "object" /\ notified.msg.type = "ops"
              THEN "worker_ops" ELSE "worker_message"

\* C10: an exit handled while drainOpen is true or the app is shutting down
\* is reported as worker_ended carrying the worker's id, never as worker_death,
\* whatever the cause, and the handler forks no replacement: the pool loses the
\* id and gains nothing, unless the listener of the event itself called
\* resumeWorkers.
C10_ClosedGateEndsQuietly ==
    [][\A id \in Exiting :
         ~GateOpen(BrokerOf(id)) =>
            /\ worker'[id].ended = 1
            /\ worker'[id].death = 0
            /\ worker'[id].replacements = 0
            /\ emitted'.event = "worker_ended" /\ emitted'.id = id
            /\ app'.lastReport = app.lastReport
            /\ \/ /\ Len(Pool(BrokerOf(id)))' = Len(Pool(BrokerOf(id))) - 1
                  /\ cluster'.nextId = cluster.nextId
               \/ /\ Len(Pool(BrokerOf(id)))' = broker[BrokerOf(id)].workerCount
                  /\ ~broker'[BrokerOf(id)].drainOpen]_vars

\* A worker that was never bounced ended by a signal while the gate was closed:
\* reported as worker_ended, not replaced.
C10_Witness ==
    /\ emitted.event = "worker_ended"
    /\ emitted.cause = "signal"
    /\ emitted.id \in DOMAIN worker
    /\ LET id == emitted.id
       IN /\ worker[id].dead /\ ~worker[id].directed
          /\ worker[id].ended = 1 /\ worker[id].death = 0
          /\ worker[id].replacements = 0
          /\ cluster.nextId = id + 1
          /\ broker[worker[id].type].drainOpen \/ app.gracefulShutdown

\* C3: from a full pool of N workers that drainWorkers() has bounced, and for
\* as long as resumeWorkers() is not called, the pool eventually reaches 0;
\* every exit on the way is reported by exactly one worker_ended and no
\* worker_death, gets no replacement and forks nothing, and a worker that has
\* exited is never reported again.
C3_DrainEmptiesPool ==
    /\ (/\ broker["web"].phase = "live"
        /\ broker["web"].drainOpen
        /\ Len(Pool("web")) = broker["web"].workerCount
        /\ \A id \in PoolSet("web") : worker[id].directed)
       ~> (~broker["web"].drainOpen \/ Pool("web") = <<>>)
    /\ [][\A id \in DOMAIN worker :
             /\ (id \in Exiting /\ broker["web"].drainOpen /\ broker'["web"].drainOpen) =>
                    /\ emitted' = [event |-> "worker_ended", id |-> id,
                                   cause |-> emitted'.cause]
                    /\ worker'[id].ended = 1
                    /\ worker'[id].death = 0
                    /\ worker'[id].replacements = 0
                    /\ DOMAIN worker' = DOMAIN worker
                    /\ cluster'.nextId = cluster.nextId
                    /\ Len(Pool("web"))' = Len(Pool("web")) - 1
                    /\ id \notin PoolSet("web")'
             /\ worker[id].dead =>
                    /\ worker'[id].ended = worker[id].ended
                    /\ worker'[id].death = worker[id].death
                    /\ worker'[id].replacements = worker[id].replacements]_vars

\* A pool of two was drained to nothing: two worker_ended, nothing forked.
C3_Witness ==
    /\ broker["web"].drainOpen
    /\ broker["web"].workerCount = 2
    /\ Pool("web") = <<>>
    /\ cluster.nextId = 3
    /\ \A id \in {1, 2} : /\ worker[id].dead /\ worker[id].directed
                          /\ worker[id].ended = 1 /\ worker[id].death = 0
                          /\ worker[id].replacements = 0

\* C4: a step in which resumeWorkers() reopens a drained broker whose pool the
\* drain has emptied (every id still listed exits in that very step) leaves
\* drainOpen false and the pool holding exactly workerCount distinct ids, none
\* of them handed out before.
C4_ResumeRefills ==
    [][\A b \in Brokers :
         (/\ broker[b].drainOpen
          /\ ~broker'[b].drainOpen
          /\ PoolSet(b) \subseteq Exiting) =>
            /\ Len(Pool(b))' = broker[b].workerCount
            /\ Cardinality(PoolSet(b)') = broker[b].workerCount
            /\ PoolSet(b)' \cap DOMAIN worker = {}
            /\ PoolSet(b)' \subseteq cluster'.workers
            /\ \A id \in PoolSet(b)' : ~worker'[id].dead /\ ~worker'[id].directed]_vars

\* A pool of two was drained, both workers ended without replacement, and
\* resumeWorkers() filled the pool with two new ids.
C4_Witness ==
    /\ ~broker["web"].drainOpen
    /\ broker["web"].workerCount = 2
    /\ Pool("web") = <<3, 4>>
    /\ \A id \in {1, 2} : /\ worker[id].dead /\ worker[id].ended = 1
                          /\ worker[id].replacements = 0

C12_Original ==
    \A b \in Brokers :
        (broker[b].phase = "live" /\ GateOpen(b)) =>
            Len(Pool(b)) = broker[b].workerCount

\* C13: _bounceWorker(id) hands no exception to its caller, for any id: when
\* the registry no longer holds the id it reports to the app and touches
\* nothing else; when the channel of the worker is closed the failed send is
\* reported to the app and the deadline is armed all the same; and
\* recycleWorkers() bounces every pool member the registry holds, whatever
\* happened to the others.
C13_BounceNeverThrows ==
    \A b \in Brokers :
        broker[b].phase = "live" =>
            /\ \A id \in 1..(MaxBounceId + 1) :
                 LET r == BounceWorker(Cur, b, id)
                 IN /\ r.broker[b].error = NoError
                    /\ r.broker = broker
                    /\ id \notin cluster.workers =>
                          /\ r.app.lastReport = "bounce"
                          /\ r.worker = worker
                          /\ r.cluster = cluster
                    /\ (id \in cluster.workers /\ ~worker[id].connected) =>
                          /\ r.app.lastReport = "error"
                          /\ r.worker[id].deadlines = worker[id].deadlines + 1
                    /\ (id \in cluster.workers /\ worker[id].connected) =>
                          /\ r.app = app
                          /\ r.worker[id].directed
                          /\ r.worker[id].exitedAfterDisconnect
            /\ LET rr == RecycleWorkers(Cur, b)
               IN /\ rr.broker = broker
                  /\ \A id \in PoolSet(b) \cap cluster.workers :
                        rr.worker[id].deadlines = worker[id].deadlines + 1

\* _bounceWorker(1) was called after worker 1 had exited and left the
\* registry: the app got the report and the broker carried on.
C13_Witness ==
    /\ broker["web"].phase = "live"
    /\ broker["web"].error = NoError
    /\ 1 \in DOMAIN worker
    /\ worker[1].dead /\ ~worker[1].directed
    /\ 1 \notin cluster.workers
    /\ app.lastReport = "bounce"
    /\ Pool("web") = <<2>>

C15_RecycleInterval ==
    /\ [](\A b \in Brokers :
            broker[b].phase = "new" =>
                \A wc \in WorkerCountOptions, rr \in RecycleRateOptions \cup {Given(-1)} :
                    LET r == Constructor(Cur, b, "okanjoApp", wc, rr)
                    IN r.broker[b].recycleTimer <=> (rr.given /\ rr.value > 0))
    /\ [][\A b \in Brokers :
            /\ broker[b].phase = "live" =>
                  broker'[b].recycleTimer = broker[b].recycleTimer
            /\ (\E id \in DOMAIN worker :
                   /\ worker[id].type = b
                   /\ ~worker[id].directed /\ worker'[id].directed) =>
                  \/ broker[b].recycleTimer
                  \/ ~broker[b].drainOpen /\ broker'[b].drainOpen]_vars

\* The interval of a broker that was never drained has bounced its worker.
C15_Witness ==
    /\ broker["web"].phase = "live"
    /\ broker["web"].recycleRate = 60000
    /\ broker["web"].recycleTimer
    /\ ~broker["web"].drainOpen
    /\ Pool("web") = <<1>>
    /\ worker[1].directed /\ ~worker[1].dead /\ worker[1].deadlines = 1

\* C16: in a running worker the directive of the parent calls
\* prepareForShutdown(); the base class's prepareForShutdown calls
\* unbindProcessSignals(), which leaves no signal handler of the worker
\* subscribed, and then shutdown(), and nothing else; and the base class's
\* shutdown ends the process with exit status 0.
C16_DirectiveShutsDown ==
    (proc.phase = "running" /\ proc.onMessage > 0) =>
        LET r == OnParentMessage(proc, "suicide")
            n == Len(proc.calls)
        IN /\ Len(r.calls) > n
           /\ r.calls[n + 1] = "prepareForShutdown"
           /\ proc.prepare = "default" =>
                 /\ r.calls = proc.calls \o
                       <<"prepareForShutdown", "unbindProcessSignals", "shutdown">>
                 /\ \A sig \in Signals : r.onSignal[sig] = 0
                 /\ proc.shutdown = "default" =>
                       r.phase = "exited" /\ r.exit = "status0"
           /\ proc.shutdown = "default" =>
                 LET e == Shutdown(proc)
                 IN e.phase = "exited" /\ e.exit = "status0"

\* A worker of the base class got the directive and its process ended with
\* status 0 after prepareForShutdown, unbindProcessSignals and shutdown.
C16_Witness ==
    /\ proc.phase = "exited"
    /\ proc.exit = "status0"
    /\ proc.last = "suicide"
    /\ proc.prepare = "default" /\ proc.shutdown = "default"
    /\ proc.calls = <<"init", "prepareForShutdown", "unbindProcessSignals", "shutdown">>
    /\ \A sig \in Signals : proc.onSignal[sig] = 0

\* C17: in a running worker whose handler for the signal is subscribed, SIGINT
\* and SIGTERM call prepareForShutdown() and from there the same hooks in the
\* same order as the directive of the parent does, leaving the process in the
\* same state but for the argument handed to prepareForShutdown (false for a
\* signal, none for the directive).
C17_SignalSharesPath ==
    \A sig \in Signals :
        (proc.phase = "running" /\ proc.onSignal[sig] > 0) =>
            LET r == OnSignal(proc, sig)
                d == OnParentMessage(proc, "suicide")
                n == Len(proc.calls)
            IN /\ Len(r.calls) > n
               /\ r.calls[n + 1] = "prepareForShutdown"
               /\ r.calls = d.calls
               /\ r.arg = "false" /\ d.arg = "undefined"
               /\ [r EXCEPT !.arg = "any"] = [d EXCEPT !.arg = "any"]
               /\ (proc.prepare # "deferred") =>
                     r.calls[Len(r.calls)] = "shutdown"

\* A worker of the base class got SIGTERM with its handlers subscribed and
\* its process ended with status 0 after the same three hooks.
C17_Witness ==
    /\ proc.phase = "exited"
    /\ proc.exit = "status0"
    /\ proc.last = "SIGTERM"
    /\ proc.arg = "false"
    /\ proc.prepare = "default" /\ proc.shutdown = "default"
    /\ proc.calls = <<"init", "prepareForShutdown", "unbindProcessSignals", "shutdown">>

\* C18: the constructor calls init() once when options is left out or its
\* skipInit is falsy and not at all when skipInit is truthy; either way the
\* worker it returns has one listener for the messages of the parent and one
\* handler each for SIGINT and SIGTERM, and answers the directive and both
\* signals with prepareForShutdown(); nothing but a call of init() changes the
\* count afterwards.
C18_ConstructorSubscribes ==
    /\ [](proc.phase = "started" =>
            \A options \in WorkerOptions, prepare \in PrepareHooks,
               shutdown \in ShutdownHooks :
                LET r == WorkerConstructor(proc, options, prepare, shutdown)
                IN /\ r.phase = "running"
                   /\ r.inits = (IF options \in {"skipTrue", "skipOne"} THEN 0 ELSE 1)
                   /\ r.calls = (IF options \in {"skipTrue", "skipOne"}
                                 THEN <<>> ELSE <<"init">>)
                   /\ r.onMessage = 1
                   /\ \A sig \in Signals : r.onSignal[sig] = 1
                   /\ OnParentMessage(r, "suicide").calls[Len(r.calls) + 1]
                         = "prepareForShutdown"
                   /\ \A sig \in Signals :
                         OnSignal(r, sig).calls[Len(r.calls) + 1] = "prepareForShutdown")
    /\ [][/\ (proc.phase = "started" /\ proc'.phase = "running") =>
               /\ proc'.inits = (IF proc'.skipInit THEN 0 ELSE 1)
               /\ proc'.onMessage = 1
               /\ \A sig \in Signals : proc'.onSignal[sig] = 1
          /\ (proc.phase = "running" /\ proc'.inits # proc.inits) =>
               /\ proc'.inits = proc.inits + 1
               /\ proc'.calls = Append(proc.calls, "init")
          /\ proc.phase = "running" => proc'.onMessage = 1]_vars

\* A worker constructed with skipInit: init() was not called, the listener and
\* both signal handlers are subscribed.
C18_Witness ==
    /\ proc.phase = "running"
    /\ proc.skipInit
    /\ proc.inits = 0
    /\ proc.calls = <<>>
    /\ proc.onMessage = 1
    /\ \A sig \in Signals : proc.onSignal[sig] = 1

\* The environment names an app may run under.
Environments == {"default", "production", "sandbox"}

\* The workers r has that the current state has not, with what they were given.
ForkedWith(r, b, e) ==
    \A id \in DOMAIN r.worker \ DOMAIN worker :
        r.worker[id].type = b /\ r.worker[id].env = e

\* C19: whatever the environment name of the app, every worker forked by the
\* constructor, by resumeWorkers() and by the exit handler of a broker is
\* given that broker's type and that name; and every worker forked in a step
\* carries the app's environment name and the type of the broker in whose
\* list its id has been put.
C19_ForkEnvironment ==
    /\ [](\A b \in Brokers, e \in Environments :
            LET s == [Cur EXCEPT !.app.currentEnvironment = e]
            IN /\ broker[b].phase = "new" =>
                    \A wc \in WorkerCountOptions :
                        LET r == Constructor(s, b, "okanjoApp", wc, Undefined)
                        IN /\ ForkedWith(r, b, e)
                           /\ Cardinality(DOMAIN r.worker \ DOMAIN worker)
                                 = r.broker[b].workerCount
               /\ broker[b].phase = "live" =>
                    /\ ForkedWith(ResumeWorkers(s, b), b, e)
                    /\ \A id \in PoolSet(b), cause \in ExitCauses :
                          ~worker[id].dead =>
                             LET r == ExitHandler(s, id, cause, "none")
                             IN /\ ForkedWith(r, b, e)
                                /\ GateOpen(b) =>
                                      DOMAIN r.worker # DOMAIN worker)
    /\ [][\A id \in DOMAIN worker' \ DOMAIN worker :
            /\ worker'[id].env = app.currentEnvironment
            /\ \A b \in Brokers :
                  (worker'[id].type = b) <=> (id \in PoolSet(b)')
            /\ worker'[id].type \in Brokers]_vars

\* Broker "jobs" forked worker 1 at construction, worker 2 to replace it after
\* a crash, and worker 3 in resumeWorkers() after a drain: each was given
\* "jobs" and the environment of the app.
C19_Witness ==
    /\ DOMAIN worker = {1, 2, 3}
    /\ \A id \in {1, 2, 3} :
          worker[id].type = "jobs" /\ worker[id].env = app.currentEnvironment
    /\ broker["jobs"].workerCount = 1
    /\ worker[1].dead /\ worker[1].death = 1 /\ worker[1].replacements = 1
    /\ worker[2].dead /\ worker[2].ended = 1 /\ worker[2].replacements = 0
    /\ ~worker[3].dead
    /\ Pool("jobs") = <<3>>
    /\ ~broker["jobs"].drainOpen

\* A bounced worker whose channel is still open and whose latest deadline
\* timer has not fired: its disconnect event would come before the deadline.
InTime(id) ==
    /\ worker[id].directed
    /\ worker[id].connected
    /\ worker[id].hasTimer
    /\ worker[id].latestPending

\* A bounced worker that has disconnected, has no deadline pending and has
\* been sent no kill: every deadline armed for it was cleared in time.
DisconnectedInTime(id) ==
    /\ worker[id].directed
    /\ ~worker[id].connected
    /\ worker[id].deadlines = 0
    /\ ~worker[id].killed

C21_BouncedWorkerExits ==
    /\ []<>(\A id \in DOMAIN worker : worker[id].directed => worker[id].dead)
    /\ [](\A id \in DOMAIN worker :
            (worker[id].directed /\ ~worker[id].dead) =>
                /\ id <= MaxLiveId
                /\ \/ worker[id].killed
                   \/ worker[id].deadlines > 0
                   \/ worker[id].followups > 0)

\* A bounced worker disconnected in time, stayed alive, was killed by the
\* follow-up check and has exited.
C21_Witness ==
    \E id \in DOMAIN worker :
        /\ worker[id].directed
        /\ ~worker[id].connected
        /\ worker[id].killed
        /\ worker[id].dead
        /\ worker[id].ended = 1
        /\ worker[id].followups = 0
        /\ worker[id].deadlines = 0

\* C22 as stated: when the disconnect handler of a worker has run, no deadline
\* armed by _bounceWorker for that worker is pending, however many times the
\* worker was bounced before.
C22_Original ==
    [][\A id \in DOMAIN worker :
          (worker[id].connected /\ ~worker'[id].connected) =>
              worker'[id].deadlines = 0]_vars

\* What one pass of recycleWorkers() of broker b does to the workers in ids
\* and to nothing else: one bounce each, nothing forked, the list untouched.
PassBounces(b, ids) ==
    LET r == RecycleWorkers(Cur, b)
    IN /\ DOMAIN r.worker = DOMAIN worker
       /\ r.cluster.nextId = cluster.nextId
       /\ r.broker[b].workerIds = broker[b].workerIds
       /\ \A id \in DOMAIN worker :
             IF id \in ids
             THEN /\ r.worker[id].directed
                  /\ r.worker[id].deadlines = worker[id].deadlines + 1
             ELSE r.worker[id] = worker[id]

\* C23 as stated: a pass bounces exactly the workers of workerIds.
C23_Original ==
    \A b \in Brokers : Live(b) => PassBounces(b, PoolSet(b))

\* C23: a pass of recycleWorkers() bounces, once each, exactly the workers
\* that are in workerIds and in Cluster.workers when it is called, and forks
\* nothing; a worker forked in any step, also in one where a listener of the
\* exit handler runs a pass, comes out of that step not bounced.
C23_PassBouncesRegistered ==
    /\ [](\A b \in Brokers :
            Live(b) => PassBounces(b, PoolSet(b) \cap cluster.workers))
    /\ [][\A id \in DOMAIN worker' \ DOMAIN worker :
            /\ ~worker'[id].directed
            /\ worker'[id].deadlines = 0
            /\ ~worker'[id].exitedAfterDisconnect]_vars

\* A pass bounced worker 1, which ended and was replaced by worker 2: worker 2
\* has not been bounced.
C23_Witness ==
    /\ DOMAIN worker = {1, 2}
    /\ worker[1].directed /\ worker[1].dead /\ worker[1].ended = 1
    /\ worker[1].replacements = 1
    /\ Pool("web") = <<2>>
    /\ ~worker[2].directed /\ worker[2].deadlines = 0 /\ ~worker[2].dead
    /\ ~broker["web"].drainOpen

\* C24: when the exit handler of a worker finds the gate open, the listeners
\* of its lifecycle event run on a pool that has lost the worker and does not
\* hold the replacement yet: a listener that drains leaves the replacement
\* unbounced in the pool, a listener that resumes forks the one worker the
\* pool is short of, and in both cases the replacement is forked last.  The
\* handler delivers no message, and a message is only ever delivered from a
\* worker that exists, so none comes from a replacement before the event of
\* the worker it replaces.
C24_EventBeforeReplacement ==
    /\ [](\A id \in DOMAIN worker, cause \in ExitCauses, call \in ListenerCalls :
            (~worker[id].dead /\ id \in PoolSet(BrokerOf(id)) /\ GateOpen(BrokerOf(id))) =>
                LET b == BrokerOf(id)
                    r == ExitHandler(Cur, id, cause, call)
                    n == r.cluster.nextId - 1
                    forked == DOMAIN r.worker \ DOMAIN worker
                    short == broker[b].workerCount - (Len(Pool(b)) - 1)
                IN /\ r.emitted = [event |-> IF worker[id].exitedAfterDisconnect
                                             THEN "worker_ended" ELSE "worker_death",
                                   id |-> id, cause |-> cause]
                   /\ r.worker[id].inPoolAtEvent = FALSE
                   /\ n \in forked
                   /\ r.broker[b].workerIds[Len(r.broker[b].workerIds)] = n
                   /\ ~r.worker[n].directed /\ r.worker[n].deadlines = 0
                   /\ r.worker[id].replacements = 1
                   /\ r.notified = notified
                   /\ call = "drainWorkers" =>
                         /\ r.broker[b].drainOpen
                         /\ forked = {n}
                   /\ call = "resumeWorkers" =>
                         Cardinality(forked) = 1 + (IF short > 0 THEN short ELSE 0)
                   /\ call \in {"none", "recycleWorkers"} => forked = {n})
    /\ [](notified.from \in DOMAIN worker \cup {0})
    /\ [][\A n \in DOMAIN worker' \ DOMAIN worker :
            /\ notified' = notified
            /\ Exiting # {} =>
                  \E id \in Exiting :
                      /\ emitted'.id = id
                      /\ emitted'.event \in {"worker_ended", "worker_death"}]_vars

\* Worker 1 crashed and worker_death was emitted for it; worker 2, forked to
\* replace it, has since delivered a message to the listeners.
C24_Witness ==
    /\ DOMAIN worker = {1, 2}
    /\ worker[1].dead /\ worker[1].death = 1 /\ worker[1].replacements = 1
    /\ emitted = [event |-> "worker_death", id |-> 1, cause |-> "crash"]
    /\ notified.from = 2
    /\ Len(notified.out) = 1
    /\ Pool("web") = <<2>>

\* C25 as stated: no callback of the broker lets an exception out: the
\* message handler never throws, and a fork that fails in the exit handler is
\* reported and leaves no error uncaught.
C25_Original ==
    /\ ~notified.threw
    /\ \A b \in Brokers :
          broker[b].error.about = "fork" => app.lastReport = "fork"

\* C26: of the payloads the parent may send, the one _bounceWorker sends is
\* the only one on which the listener of a running worker calls
\* prepareForShutdown(); on every other payload the listener calls no hook and
\* leaves the worker as it was; a step in which another payload arrives
\* changes nothing of the process but the record of what arrived.
C26_OnlyDirectiveShutsDown ==
    /\ [](Directive \in ParentPayloads)
    /\ []((proc.phase = "running" /\ proc.onMessage > 0) =>
            \A msg \in ParentPayloads :
                LET r == OnParentMessage(proc, msg)
                IN IF msg = Directive
                   THEN /\ Len(r.calls) > Len(proc.calls)
                        /\ r.calls[Len(proc.calls) + 1] = "prepareForShutdown"
                   ELSE r = proc)
    /\ [][(proc'.last # proc.last /\ proc'.last \in ParentPayloads \ {Directive}) =>
              proc' = [proc EXCEPT !.last = proc'.last]]_vars

\* A running worker got the payload "shutdown" from its parent: it is still
\* running, its listener and handlers are subscribed, and no hook but init
\* was called.
C26_Witness ==
    /\ proc.phase = "running"
    /\ proc.last = "shutdown"
    /\ proc.calls = <<"init">>
    /\ proc.onMessage = 1
    /\ \A sig \in Signals : proc.onSignal[sig] = 1
    /\ proc.pending = 0

\* C27: in a running worker one call of unbindProcessSignals() leaves no
\* handler for SIGINT or SIGTERM subscribed, and a second call changes
\* nothing but the trace of calls; neither ends or breaks the worker.  Once
\* no handler is subscribed none comes back, and the only thing that still
\* calls prepareForShutdown() is the directive of the parent: a signal ends
\* the process without a hook.
C27_UnbindIdempotent ==
    /\ [](proc.phase = "running" =>
            LET once == UnbindProcessSignals(proc)
                twice == UnbindProcessSignals(once)
            IN /\ \A sig \in Signals : once.onSignal[sig] = 0
               /\ once = [proc EXCEPT !.onSignal = [sig \in Signals |-> 0],
                                      !.calls = Append(@, "unbindProcessSignals")]
               /\ twice = [once EXCEPT !.calls = Append(@, "unbindProcessSignals")])
    /\ [](\A sig \in Signals : proc.onSignal[sig] \in {0, 1})
    /\ [][(proc.phase = "running" /\ \A sig \in Signals : proc.onSignal[sig] = 0) =>
              /\ \A sig \in Signals : proc'.onSignal[sig] = 0
              /\ (Len(proc'.calls) > Len(proc.calls)
                    /\ proc'.calls[Len(proc.calls) + 1] = "prepareForShutdown") =>
                       proc'.last = Directive
              /\ proc'.last \in Signals =>
                    \/ proc'.calls = proc.calls /\ proc'.phase = "exited"
                          /\ proc'.exit = proc'.last
                    \/ proc'.last = proc.last]_vars

\* The script called unbindProcessSignals() twice; SIGTERM then ended the
\* process, and prepareForShutdown was never called.
C27_Witness ==
    /\ proc.calls = <<"init", "unbindProcessSignals", "unbindProcessSignals">>
    /\ proc.phase = "exited"
    /\ proc.exit = "SIGTERM"
    /\ proc.last = "SIGTERM"
    /\ \A sig \in Signals : proc.onSignal[sig] = 0

\* C28: the error handler of a worker changes the last report of the app and
\* nothing else: the lists, drainOpen, the registry, every worker record
\* (none killed, none forked), the last lifecycle event and the last
\* notification are as before; and so is every step in which an error report
\* newly appears.
C28_ErrorOnlyReports ==
    /\ [](\A id \in DOMAIN worker :
            LET r == ErrorHandler(Cur, id)
            IN /\ r.app.lastReport = "error"
               /\ r = [Cur EXCEPT !.app.lastReport = "error"]
               /\ r.broker = broker
               /\ r.worker = worker
               /\ r.cluster = cluster
               /\ r.emitted = emitted)
    /\ [][(app'.lastReport = "error" /\ app.lastReport # "error") =>
              /\ broker' = broker
              /\ worker' = worker
              /\ cluster' = cluster
              /\ emitted' = emitted
              /\ notified' = notified
              /\ app'.gracefulShutdown = app.gracefulShutdown]_vars

\* Worker 1 of a pool of one raised an error: it was reported, the worker is
\* alive in the pool with no kill sent, no lifecycle event was emitted and
\* nothing was forked.
C28_Witness ==
    /\ app.lastReport = "error"
    /\ DOMAIN worker = {1}
    /\ Pool("web") = <<1>>
    /\ ~worker[1].dead /\ ~worker[1].killed
    /\ emitted = NoEvent
    /\ cluster.nextId = 2
    /\ ~broker["web"].drainOpen

\* The drainOpen of every broker is in r what it is now.
SameGates(r) == \A o \in Brokers : r.broker[o].drainOpen = broker[o].drainOpen

\* C29: drainWorkers() leaves drainOpen true and resumeWorkers() leaves it
\* false, each for its own broker only, and the constructor leaves it false.
\* A spawn, a recycle pass (called or ticked), _bounceWorker with any id, the
\* exit handler (also with a listener that recycles), the disconnect, message
\* and error handlers and both timer callbacks all leave the drainOpen of
\* every broker as it was; in every step a live broker stays live and a
\* broker that comes to life starts with drainOpen false.
C29_GateChangedByDrainAndResume ==
    /\ [](\A b \in Brokers :
            /\ Live(b) =>
                 /\ DrainWorkers(Cur, b).broker[b].drainOpen = TRUE
                 /\ ResumeWorkers(Cur, b).broker[b].drainOpen = FALSE
                 /\ \A o \in Brokers \ {b} :
                       /\ DrainWorkers(Cur, b).broker[o].drainOpen = broker[o].drainOpen
                       /\ ResumeWorkers(Cur, b).broker[o].drainOpen = broker[o].drainOpen
                 /\ SameGates(SpawnWorker(Cur, b))
                 /\ SameGates(RecycleWorkers(Cur, b))
                 /\ \A id \in 1..(MaxBounceId + 1) : SameGates(BounceWorker(Cur, b, id))
            /\ broker[b].phase = "new" =>
                 \A a \in AppArgs, wc \in WorkerCountOptions, rr \in RecycleRateOptions :
                    LET r == Constructor(Cur, b, a, wc, rr)
                    IN /\ r.broker[b].drainOpen = FALSE
                       /\ SameGates(r))
    /\ [](\A id \in DOMAIN worker :
            /\ SameGates(DisconnectHandler(Cur, id))
            /\ SameGates(ErrorHandler(Cur, id))
            /\ SameGates(DeadlineExpired(Cur, id))
            /\ SameGates(FollowupExpired(Cur, id))
            /\ \A msg \in Payloads : SameGates(MessageHandler(Cur, id, msg))
            /\ ~worker[id].dead =>
                  \A cause \in ExitCauses, call \in {"none", "recycleWorkers"} :
                      SameGates(ExitHandler(Cur, id, cause, call)))
    /\ [][\A b \in Brokers :
            /\ Live(b) => Live(b)'
            /\ (~Live(b) /\ Live(b)') => ~broker'[b].drainOpen
            /\ broker'[b].drainOpen => Live(b)']_vars

\* A drained broker whose only worker was bounced, disconnected and ended:
\* the gate is still closed and the pool is empty.
C29_Witness ==
    /\ broker["web"].drainOpen
    /\ broker["web"].workerCount = 1
    /\ Pool("web") = <<>>
    /\ DOMAIN worker = {1}
    /\ worker[1].directed /\ ~worker[1].connected /\ worker[1].dead
    /\ worker[1].ended = 1
    /\ worker[1].followups = 0 /\ worker[1].deadlines = 0

\* C30 as stated: a broker never lists more ids than its workerCount, also
\* when a listener of a lifecycle event calls a public operation of the
\* broker while the exit handler is running.
C30_Original ==
    \A b \in Brokers : Len(broker[b].workerIds) <= broker[b].workerCount

\* C31 as stated: on a broker whose pool is full, drainWorkers() followed by
\* resumeWorkers() while the bounced workers are alive, and then the exit of
\* any of them, leaves workerCount ids in the pool, whatever the listeners of
\* the exit's event do; and a resume after some of them have exited brings
\* the pool back to workerCount.
C31_Original ==
    \A b \in Brokers :
        (/\ Live(b)
         /\ ~app.gracefulShutdown
         /\ Len(Pool(b)) = broker[b].workerCount
         /\ \A id \in PoolSet(b) : ~worker[id].dead /\ id \in cluster.workers) =>
            LET drained == DrainWorkers(Cur, b)
                resumed == ResumeWorkers(drained, b)
            IN /\ Len(resumed.broker[b].workerIds) = broker[b].workerCount
               /\ \A id \in PoolSet(b), cause \in KillCauses, call \in ListenerCalls :
                     /\ Len(ExitHandler(resumed, id, cause, call).broker[b].workerIds)
                           = broker[b].workerCount
                     /\ Len(ResumeWorkers(ExitHandler(drained, id, cause, "none"), b)
                              .broker[b].workerIds) = broker[b].workerCount

\* C32: the exit handler of a live worker emits one lifecycle event, either
\* worker_ended or worker_death, for the id of that worker, with the id
\* already out of workerIds when the listeners run, whatever the cause and
\* whatever the listeners do; a worker that has not exited has had no event, a
\* worker that has exited has had one, and a step changes the events of no
\* worker but the one that exits in it.
C32_OneEventPerExit ==
    /\ [](\A id \in DOMAIN worker :
            /\ worker[id].ended + worker[id].death = (IF worker[id].dead THEN 1 ELSE 0)
            /\ ~worker[id].dead =>
                  \A cause \in ExitCauses, call \in ListenerCalls :
                      LET r == ExitHandler(Cur, id, cause, call)
                      IN /\ r.worker[id].ended + r.worker[id].death = 1
                         /\ r.emitted.id = id
                         /\ r.emitted.cause = cause
                         /\ r.emitted.event =
                               (IF r.worker[id].death = 1 THEN "worker_death"
                                ELSE "worker_ended")
                         /\ ~r.worker[id].inPoolAtEvent
                         /\ id \notin Range(r.broker[BrokerOf(id)].workerIds)
                         /\ \A o \in DOMAIN worker \ {id} :
                               /\ r.worker[o].ended = worker[o].ended
                               /\ r.worker[o].death = worker[o].death)
    /\ [][\A id \in DOMAIN worker :
            IF id \in Exiting
            THEN /\ emitted'.id = id
                 /\ emitted'.event \in {"worker_ended", "worker_death"}
                 /\ ~worker'[id].inPoolAtEvent
                 /\ id \notin PoolSet(BrokerOf(id))'
            ELSE /\ worker'[id].ended = worker[id].ended
                 /\ worker'[id].death = worker[id].death]_vars

\* Worker 1 crashed and had worker_death, its replacement was bounced and
\* had worker_ended: one event each, emitted with the id out of the list.
C32_Witness ==
    /\ {1, 2} \subseteq DOMAIN worker
    /\ worker[1].dead /\ worker[1].death = 1 /\ worker[1].ended = 0
    /\ worker[2].dead /\ worker[2].death = 0 /\ worker[2].ended = 1
    /\ ~worker[1].inPoolAtEvent /\ ~worker[2].inPoolAtEvent
    /\ emitted.id = 2 /\ emitted.event = "worker_ended"
    /\ {1, 2} \cap PoolSet("web") = {}

\* The ids of seq other than id, in the order seq has them.
Without(seq, id) == SelectSeq(seq, LAMBDA x : x # id)

\* The ids of seq that the current state knows, in the order seq has them.
Known(seq) == SelectSeq(seq, LAMBDA x : x \in DOMAIN worker)

\* C33: every live worker is listed once by the broker that forked it, and the
\* exit handler of any of them, whatever the cause and whatever the listeners
\* do, takes that id out of the list and leaves the other ids of the list in
\* place and in order (what is forked in the handler comes after them); the
\* list of every other broker is untouched.
C33_ExitRemovesOwnId ==
    /\ [](\A id \in DOMAIN worker :
            ~worker[id].dead =>
                /\ Cardinality({i \in 1..Len(Pool(BrokerOf(id))) :
                                   Pool(BrokerOf(id))[i] = id}) = 1
                /\ \A cause \in ExitCauses, call \in ListenerCalls :
                      LET b == BrokerOf(id)
                          r == ExitHandler(Cur, id, cause, call)
                          left == Without(Pool(b), id)
                      IN /\ Known(r.broker[b].workerIds) = left
                         /\ Len(left) = Len(Pool(b)) - 1
                         /\ SubSeq(r.broker[b].workerIds, 1, Len(left)) = left
                         /\ \A o \in Brokers \ {b} :
                               r.broker[o].workerIds = broker[o].workerIds)
    /\ [][\A id \in Exiting :
            /\ PoolSet(BrokerOf(id))' \cap DOMAIN worker = PoolSet(BrokerOf(id)) \ {id}
            /\ Known(Pool(BrokerOf(id))') = Without(Pool(BrokerOf(id)), id)]_vars

\* Of a pool of two the first worker exited while the second stays: the list
\* is the second worker followed by the replacement.
C33_Witness ==
    /\ broker["web"].workerCount = 2
    /\ Pool("web") = <<2, 3>>
    /\ worker[1].dead /\ worker[1].replacements = 1
    /\ ~worker[2].dead /\ ~worker[3].dead
    /\ emitted.id = 1

\* C34: no id is in the lists of two brokers, and every id a broker lists is
\* that of a worker forked with the broker's own type; a worker forked in a
\* step gets an id no broker has listed or handed out before.
C34_DisjointPools ==
    /\ [](\A b \in Brokers :
            /\ \A o \in Brokers \ {b} : PoolSet(b) \cap PoolSet(o) = {}
            /\ \A id \in PoolSet(b) :
                  /\ id \in DOMAIN worker
                  /\ worker[id].type = b
                  /\ id < cluster.nextId)
    /\ [][\A id \in DOMAIN worker' \ DOMAIN worker :
            /\ id = cluster.nextId \/ id > cluster.nextId
            /\ \A b \in Brokers : id \notin PoolSet(b)
            /\ Cardinality({b \in Brokers : id \in PoolSet(b)'}) = 1]_vars

\* Two live brokers: "web" has replaced its first worker, "jobs" holds the
\* worker it was constructed with; the lists share no id.
C34_Witness ==
    /\ Live("web") /\ Live("jobs")
    /\ PoolSet("web") # {} /\ PoolSet("jobs") # {}
    /\ \E i \in DOMAIN worker :
          worker[i].type = "web" /\ worker[i].dead /\ worker[i].replacements = 1
    /\ \A j \in PoolSet("jobs") : ~worker[j].dead /\ worker[j].type = "jobs"
    /\ Cardinality(PoolSet("web") \cup PoolSet("jobs")) = 2

\* The workers r has been sent a kill are those the current state has.
SameKills(r) ==
    \A id \in DOMAIN worker : r.worker[id].killed = worker[id].killed

\* C35: a worker that was sent a kill had been bounced or had disconnected.
\* The kill is sent in the callback of a deadline armed by a bounce, or in the
\* follow-up check of a disconnect, and only to a worker that has not exited;
\* the public operations and the exit, disconnect, message and error handlers
\* send none.
C35_KillOnlyByTimers ==
    /\ [](\A id \in DOMAIN worker :
            /\ worker[id].killed => (worker[id].directed \/ ~worker[id].connected)
            /\ worker[id].deadlines > 0 => worker[id].directed
            /\ worker[id].followups > 0 => ~worker[id].connected
            /\ SameKills(DisconnectHandler(Cur, id))
            /\ SameKills(ErrorHandler(Cur, id))
            /\ \A msg \in Payloads : SameKills(MessageHandler(Cur, id, msg))
            /\ ~worker[id].dead =>
                  \A cause \in ExitCauses, call \in ListenerCalls :
                      SameKills(ExitHandler(Cur, id, cause, call)))
    /\ [](\A b \in Brokers :
            Live(b) =>
                /\ SameKills(RecycleWorkers(Cur, b))
                /\ SameKills(DrainWorkers(Cur, b))
                /\ SameKills(ResumeWorkers(Cur, b)))
    /\ [][\A id \in DOMAIN worker :
            (~worker[id].killed /\ worker'[id].killed) =>
                /\ ~worker[id].dead
                /\ \/ /\ worker[id].directed
                      /\ worker'[id].deadlines = worker[id].deadlines - 1
                   \/ /\ ~worker[id].connected
                      /\ worker'[id].followups = worker[id].followups - 1]_vars

\* A worker that was never bounced lost its channel and stayed alive: the
\* follow-up check of its disconnect sent it the kill.
C35_Witness ==
    \E id \in DOMAIN worker :
        /\ worker[id].killed
        /\ ~worker[id].directed
        /\ ~worker[id].connected
        /\ ~worker[id].dead
        /\ worker[id].followups = 0
        /\ worker[id].deadlines = 0

\* A live broker that is draining and lists no worker.
Drained(b) == Live(b) /\ broker[b].drainOpen /\ Pool(b) = <<>>

\* C36: on a drained broker with an empty list, recycleWorkers() (called or
\* ticked by the interval) and drainWorkers() fork nothing, bounce nothing and
\* leave the list empty and drainOpen true; every step that leaves drainOpen
\* true leaves the list empty and forks nothing, so only resumeWorkers()
\* brings workers back.
C36_DrainedStaysEmpty ==
    /\ [](\A b \in Brokers :
            Drained(b) =>
                \A op \in {"recycle", "drain"} :
                    LET r == IF op = "recycle" THEN RecycleWorkers(Cur, b)
                             ELSE DrainWorkers(Cur, b)
                    IN /\ r.broker[b].workerIds = <<>>
                       /\ r.broker[b].drainOpen
                       /\ r.worker = worker
                       /\ r.cluster = cluster)
    /\ [](\A b \in Brokers :
            Drained(b) => \A id \in DOMAIN worker : worker[id].type = b => worker[id].dead)
    /\ [][\A b \in {"web"} :
            (Drained(b) /\ broker'[b].drainOpen) =>
                /\ Pool(b)' = <<>>
                /\ DOMAIN worker' = DOMAIN worker
                /\ cluster'.nextId = cluster.nextId]_vars

\* A broker with a recycle interval and a pool of two was drained to nothing:
\* both workers have ended, nothing was forked, and the interval is armed.
C36_Witness ==
    /\ Drained("web")
    /\ broker["web"].workerCount = 2
    /\ broker["web"].recycleTimer
    /\ DOMAIN worker = {1, 2}
    /\ worker[1].dead /\ worker[2].dead
    /\ cluster.nextId = 3

\* C37: resumeWorkers() on a broker that lists workerCount ids or more forks
\* nothing and changes nothing but drainOpen; on any live broker it leaves
\* the list as long as the larger of its length and workerCount, and a second
\* call right after the first changes nothing at all.
C37_ResumeIdempotent ==
    \A b \in Brokers :
        Live(b) =>
            LET once == ResumeWorkers(Cur, b)
                twice == ResumeWorkers(once, b)
                n == Len(Pool(b))
                wc == broker[b].workerCount
            IN /\ twice = once
               /\ Len(once.broker[b].workerIds) = (IF n >= wc THEN n ELSE wc)
               /\ Cardinality(DOMAIN once.worker \ DOMAIN worker)
                     = (IF n >= wc THEN 0 ELSE wc - n)
               /\ SubSeq(once.broker[b].workerIds, 1, n) = Pool(b)
               /\ n >= wc =>
                     once = [Cur EXCEPT !.broker[b].drainOpen = FALSE]

\* A pool of two was drained, lost worker 1, and was resumed: worker 3 filled
\* the gap, the list is full again and the gate is open.
C37_Witness ==
    /\ Live("web")
    /\ ~broker["web"].drainOpen
    /\ broker["web"].workerCount = 2
    /\ Pool("web") = <<2, 3>>
    /\ worker[1].dead /\ worker[1].ended = 1 /\ worker[1].replacements = 0
    /\ worker[2].directed /\ ~worker[2].dead
    /\ ~worker[3].directed /\ ~worker[3].dead
    /\ cluster.nextId = 4

\* How many times the hook was called in the life of the process.
Times(p, hook) == Cardinality({i \in 1..Len(p.calls) : p.calls[i] = hook})

\* A constructed worker of the base class whose listener and signal handlers
\* are subscribed as the constructor left them.
DefaultWorker ==
    /\ proc.phase = "running"
    /\ proc.prepare = "default" /\ proc.shutdown = "default"
    /\ proc.onMessage > 0
    /\ \A sig \in Signals : proc.onSignal[sig] > 0

\* C38: in a worker with the default hooks the first directive or signal runs
\* shutdown() once and ends the process with status 0; an exited process
\* handles nothing more, so whatever directives and signals follow in
\* whatever order, shutdown() has run at most once, and exactly once when the
\* process ended with status 0.
C38_ShutdownOnce ==
    /\ [](DefaultWorker =>
            /\ Times(proc, "shutdown") = 0
            /\ \A sig \in Signals :
                  LET r == OnSignal(proc, sig)
                  IN r.phase = "exited" /\ r.exit = "status0"
                        /\ Times(r, "shutdown") = 1
            /\ LET d == OnParentMessage(proc, Directive)
               IN d.phase = "exited" /\ d.exit = "status0"
                     /\ Times(d, "shutdown") = 1)
    /\ []((proc.prepare = "default" /\ proc.shutdown = "default") =>
            /\ Times(proc, "shutdown") <= 1
            /\ Times(proc, "shutdown") = 1 <=>
                  (proc.phase = "exited" /\ proc.exit = "status0"))
    /\ [][proc.phase = "exited" => proc' = proc]_vars

\* A worker of the base class got a payload that is not the directive and
\* then SIGINT: shutdown() ran once and the process ended with status 0.
C38_Witness ==
    /\ proc.prepare = "default" /\ proc.shutdown = "default"
    /\ proc.phase = "exited"
    /\ proc.exit = "status0"
    /\ proc.last = "SIGINT"
    /\ Times(proc, "shutdown") = 1
    /\ Times(proc, "prepareForShutdown") = 1
    /\ ~proc.skipInit

\* No position of the list repeats an earlier one.
NoDuplicates(seq) ==
    \A i, j \in 1..Len(seq) : seq[i] = seq[j] => i = j

\* C39: no broker's workerIds holds an id twice, every id in it was handed
\* out by a fork, and an id that enters the list in a step had never been
\* handed out before that step, so an id taken out on exit never comes back.
C39_IdsUniqueAndNeverReused ==
    /\ [](\A b \in Brokers :
            /\ NoDuplicates(Pool(b))
            /\ PoolSet(b) \subseteq Forked(Cur)
            /\ \A id \in PoolSet(b) : id < cluster.nextId)
    /\ [][\A b \in Brokers : \A id \in 1..MaxId :
            (id \in PoolSet(b)' /\ id \notin PoolSet(b)) =>
                /\ id \notin Forked(Cur)
                /\ id >= cluster.nextId]_vars

\* A worker has exited and left the list and its replacement is in the list
\* beside an older worker.
C39_Witness ==
    \E b \in Brokers : \E gone, old, new \in Forked(Cur) :
        /\ worker[gone].dead /\ worker[gone].type = b
        /\ gone \notin PoolSet(b)
        /\ old < gone /\ gone < new
        /\ {old, new} \subseteq PoolSet(b)
        /\ Len(Pool(b)) = 2

====
